---- MODULE Spec2Model ----
(***************************************************************************)
(* Delivery-tracking screens of mapversemain-frontend-2.                   *)
(*                                                                         *)
(*   src/app/_layout.tsx   customer tracking screen  (Spec, SpecStale)     *)
(*                         (also SpecLocate, SpecSerial, SpecReducer)      *)
(*   src/app/_layout1.tsx  customer place-order screen (Spec1,             *)
(*                         SpecDebounce)                                   *)
(*   src/app/_layout2.tsx  delivery-side screen (its reducer, SpecReducer) *)
(*                                                                         *)
(* Each screen is a React component: a reducer state, a few useState       *)
(* cells, socket listeners, timers and button handlers.  JavaScript runs   *)
(* one callback at a time, so every handler is one atomic action.          *)
(***************************************************************************)
EXTENDS Integers, Sequences, FiniteSets

(***************************************************************************)
(* Values                                                                  *)
(***************************************************************************)

\* null for a Coords | null field
Null == [null |-> TRUE]

\* null for eta : string | null
NoEta == "null"

\* Coordinates in whole degrees.  The latitudeDelta / longitudeDelta members
\* of Coords only size the map viewport and are left out.
CoordA == [latitude |-> 12, longitude |-> 77]

CoordB == [latitude |-> 13, longitude |-> 78]

CoordsPayloads == {CoordA, CoordB}

RoutePayloads == {<< >>, <<CoordA, CoordB>>}

EtaPayloads == {NoEta, "5 min"}

\* status strings the server may send
StatusPayloads == {"Assigned", "Picked Up", "In Transit", "Delivered", "Cancelled"}

\* Logical timestamps the delivery side stamps on its location reports.
MaxTs == 2

Timestamps == 1..MaxTs

ConnectedPayloads ==
  [deliveryCoords : CoordsPayloads, customerCoords : {CoordA},
   routeCoords : RoutePayloads, eta : EtaPayloads,
   orderStatus : {"Picked Up", "In Transit", "Delivered"}]

(***************************************************************************)
(* _layout.tsx : customer tracking screen                                  *)
(***************************************************************************)
VARIABLES
  state,            \* useReducer state (interface State)
  socketConnected,  \* useState socketConnected
  isLocationStale,  \* useState isLocationStale
  appState,         \* AppState.currentState
  now,              \* Date.now(), ms since the screen was mounted
  freshnessDue,     \* time the checkLocationFreshness interval fires next
  emitted,          \* socket events emitted by the last step, in order
  received,         \* the socket / UI event the last step handled
  deliveryTs,       \* timestamp of the report whose coords are stored (0: none)
  maxTsReceived,    \* greatest timestamp of any report received so far
  trackingPaused,   \* pauseTracking was emitted and no resumeTracking since
  alerts,           \* Alert.alert titles shown by the last step
  locating          \* getCurrentLocation invocations suspended at an await

varsLayout == <<state, socketConnected, isLocationStale, appState, now,
                freshnessDue, emitted, received, deliveryTs, maxTsReceived,
                trackingPaused, alerts, locating>>

\* _layout1.tsx : customer place-order screen
VARIABLES
  state1,           \* useReducer state (interface State)
  socketUp1,        \* socket.connected
  placing1,         \* handlePlaceOrder invocations suspended at an await
  acksPending1,     \* joinOrder emissions whose acknowledgement is outstanding
  etaCaptured1,     \* eta as captured by the interval callback's closure
  emitted1,         \* socket events emitted by the last step
  received1,        \* the socket / UI / timer event the last step handled
  alerts1,          \* Alert.alert titles shown by the last step
  notified1         \* notifications scheduled by the last step

varsLayout1 == <<state1, socketUp1, placing1, acksPending1, etaCaptured1,
                 emitted1, received1, alerts1, notified1>>

\* sendLocationUpdate of _layout1.tsx: the state of debounce(..., 1000)
VARIABLES
  timerId,          \* due time of the pending setTimeout, NoTimer if none
  lastArgs,         \* arguments of the latest call not yet passed on
  lastCallTime,     \* time of the latest call, NoTime before the first
  callLog,          \* every call made: [at, coords]
  sentLog           \* every customerLocationUpdate sent: [at, coords, call]

varsDebounce == <<timerId, lastArgs, lastCallTime, callLog, sentLog>>

\* the tracking engine behind the socket (sessions by order id)
VARIABLES
  sessions,         \* order id -> session, NoSession if none
  result            \* outcome of the last engine operation

varsEngine == <<sessions, result>>

\* _layout2.tsx : delivery-side screen
VARIABLES
  state2,           \* useReducer state (interface State)
  connected2,       \* useState connected
  socketUp2,        \* socket.connected
  listeners2,       \* listeners registered on the socket, per event
  locating2,        \* getLocationOfDelivery invocations suspended at an await
  handled2,         \* listeners that ran for the event the last step handled
  emitted2,         \* socket events emitted by the last step
  received2,        \* the socket / UI event the last step handled
  alerts2           \* Alert.alert titles shown by the last step

varsLayout2 == <<state2, connected2, socketUp2, listeners2, locating2, handled2,
                 emitted2, received2, alerts2>>

\* a delivery-location update and a status update in flight together
VARIABLES
  race              \* the two payloads and the state they met, Null if none
                    \* (dispatches still to make: pcDelivery, pcStatus)

varsSerial == <<race>>

STALE_THRESHOLD == 30000

FRESHNESS_INTERVAL == 5000

initialState ==
  [deliveryCoords |-> Null, customerCoords |-> Null,
   orderStatus |-> "Waiting for Connection", eta |-> NoEta,
   routeCoords |-> << >>, isConnected |-> FALSE, lastLocationUpdate |-> 0]

\* a reducer whose SET_DELIVERY_COORDS leaves lastLocationUpdate alone
reducerNoStamp(s, action) ==
  CASE action.type = "BATCH_UPDATE" ->
         [f \in DOMAIN s |->
            IF f = "lastLocationUpdate" THEN now
            ELSE IF f \in DOMAIN action.payload THEN action.payload[f] ELSE s[f]]
    [] action.type = "SET_DELIVERY_COORDS" ->
         [s EXCEPT !.deliveryCoords = action.payload]
    [] action.type = "SET_CUSTOMER_COORDS" ->
         [s EXCEPT !.customerCoords = action.payload]
    [] action.type = "SET_ORDER_STATUS" ->
         [s EXCEPT !.orderStatus = action.payload]
    [] action.type = "SET_ETA" ->
         [s EXCEPT !.eta = action.payload]
    [] action.type = "SET_ROUTE" ->
         [s EXCEPT !.routeCoords = action.payload]
    [] action.type = "SET_CONNECTED" ->
         [s EXCEPT !.isConnected = action.payload]
    [] action.type = "SET_LAST_UPDATE" ->
         [s EXCEPT !.lastLocationUpdate = action.payload]
    [] OTHER -> s

\* a reducer whose SET_ROUTE extends the stored route
reducerAppendRoute(s, action) ==
  CASE action.type = "BATCH_UPDATE" ->
         [f \in DOMAIN s |->
            IF f = "lastLocationUpdate" THEN now
            ELSE IF f \in DOMAIN action.payload THEN action.payload[f] ELSE s[f]]
    [] action.type = "SET_DELIVERY_COORDS" ->
         [s EXCEPT !.deliveryCoords = action.payload, !.lastLocationUpdate = now]
    [] action.type = "SET_CUSTOMER_COORDS" ->
         [s EXCEPT !.customerCoords = action.payload]
    [] action.type = "SET_ORDER_STATUS" ->
         [s EXCEPT !.orderStatus = action.payload]
    [] action.type = "SET_ETA" ->
         [s EXCEPT !.eta = action.payload]
    [] action.type = "SET_ROUTE" ->
         [s EXCEPT !.routeCoords = @ \o action.payload]
    [] action.type = "SET_CONNECTED" ->
         [s EXCEPT !.isConnected = action.payload]
    [] action.type = "SET_LAST_UPDATE" ->
         [s EXCEPT !.lastLocationUpdate = action.payload]
    [] OTHER -> s

reducer(s, action) ==
  CASE action.type = "BATCH_UPDATE" ->
         [f \in DOMAIN s |->
            IF f = "lastLocationUpdate" THEN now
            ELSE IF f \in DOMAIN action.payload THEN action.payload[f] ELSE s[f]]
    [] action.type = "SET_DELIVERY_COORDS" ->
         [s EXCEPT !.deliveryCoords = action.payload, !.lastLocationUpdate = now]
    [] action.type = "SET_CUSTOMER_COORDS" ->
         [s EXCEPT !.customerCoords = action.payload]
    [] action.type = "SET_ORDER_STATUS" ->
         [s EXCEPT !.orderStatus = action.payload]
    [] action.type = "SET_ETA" ->
         [s EXCEPT !.eta = action.payload]
    [] action.type = "SET_ROUTE" ->
         [s EXCEPT !.routeCoords = action.payload]
    [] action.type = "SET_CONNECTED" ->
         [s EXCEPT !.isConnected = action.payload]
    [] action.type = "SET_LAST_UPDATE" ->
         [s EXCEPT !.lastLocationUpdate = action.payload]
    [] OTHER -> s

\* dispatch of a list of actions, in order
RECURSIVE dispatchAll(_, _)
dispatchAll(s, actions) ==
  IF actions = << >> THEN s
  ELSE dispatchAll(reducer(s, Head(actions)), Tail(actions))

\* useEffect(..., [lastLocationUpdate]): when the value changed the interval
\* is cleared and started again, FRESHNESS_INTERVAL from now.
freshnessEffect(s2) ==
  freshnessDue' = IF s2.lastLocationUpdate # state.lastLocationUpdate
                  THEN now + FRESHNESS_INTERVAL ELSE freshnessDue

\* useEffect(..., [isConnected, socketConnected]): when one of the two changed
\* and the screen is connected, requestUpdate() runs at once (and the polling
\* interval is started again)
requestUpdateEffect(s2) ==
  IF /\ (s2.isConnected # state.isConnected \/ socketConnected' # socketConnected)
     /\ s2.isConnected /\ socketConnected'
  THEN << [event |-> "requestLocationUpdate"] >>
  ELSE << >>

\* one render of the screen: the new reducer state, the effects that depend
\* on it, what was emitted, what was handled and which alerts were shown
Render(s2, out, ev, al) ==
  /\ state' = s2
  /\ freshnessEffect(s2)
  /\ emitted' = out \o requestUpdateEffect(s2)
  /\ received' = ev
  /\ alerts' = al
  /\ UNCHANGED <<varsLayout1, varsDebounce, varsEngine, varsLayout2>>

CommitAlert(s2, out, ev, al) ==
  /\ Render(s2, out, ev, al)
  /\ UNCHANGED varsSerial

Commit(s2, out, ev) == CommitAlert(s2, out, ev, << >>)

InitLayout ==
  /\ state = initialState
  /\ socketConnected = FALSE
  /\ isLocationStale = FALSE
  /\ appState = "active"
  /\ now = 0
  /\ freshnessDue = FRESHNESS_INTERVAL
  /\ emitted = << >>
  /\ received = [event |-> "mount"]
  /\ deliveryTs = 0
  /\ maxTsReceived = 0
  /\ trackingPaused = FALSE
  /\ alerts = << >>
  /\ locating = [permission |-> 0, position |-> 0]

\* socket.on('connect')
handleConnect ==
  /\ ~socketConnected
  /\ socketConnected' = TRUE
  /\ Commit(state, << >>, [event |-> "connect"])
  /\ UNCHANGED <<isLocationStale, appState, now, deliveryTs, maxTsReceived,
                 trackingPaused, locating>>

\* a disconnect handler that starts the screen over
handleDisconnectReset ==
  /\ socketConnected
  /\ socketConnected' = FALSE
  /\ Commit(initialState, << >>, [event |-> "disconnect"])
  /\ UNCHANGED <<isLocationStale, appState, now, deliveryTs, maxTsReceived,
                 trackingPaused, locating>>

\* a disconnect handler that forgets the dispatch
handleDisconnectSocketOnly ==
  /\ socketConnected
  /\ socketConnected' = FALSE
  /\ Commit(state, << >>, [event |-> "disconnect"])
  /\ UNCHANGED <<isLocationStale, appState, now, deliveryTs, maxTsReceived,
                 trackingPaused, locating>>

\* socket.on('disconnect')
handleDisconnect ==
  /\ socketConnected
  /\ socketConnected' = FALSE
  /\ Commit(reducer(state, [type |-> "SET_CONNECTED", payload |-> FALSE]),
            << >>, [event |-> "disconnect"])
  /\ UNCHANGED <<isLocationStale, appState, now, deliveryTs, maxTsReceived,
                 trackingPaused, locating>>

\* socket.on('deliveryLocation'): the payload is stored as it comes; the
\* handler takes no timestamp, ts is the time the report was made
handleDeliveryLocation(coords, ts) ==
  /\ socketConnected
  /\ UNCHANGED <<socketConnected, isLocationStale, appState, now, trackingPaused,
                 locating>>
  /\ Commit(reducer(state, [type |-> "SET_DELIVERY_COORDS", payload |-> coords]),
            << >>, [event |-> "deliveryLocation", coords |-> coords, ts |-> ts])
  /\ deliveryTs' = ts
  /\ maxTsReceived' = IF ts > maxTsReceived THEN ts ELSE maxTsReceived

\* socket.on('connected')
handleConnected(p, ts) ==
  /\ socketConnected
  /\ UNCHANGED <<socketConnected, isLocationStale, appState, now, trackingPaused,
                 locating>>
  /\ Commit(dispatchAll(state,
              << [type |-> "SET_DELIVERY_COORDS", payload |-> p.deliveryCoords],
                 [type |-> "SET_CUSTOMER_COORDS", payload |-> p.customerCoords],
                 [type |-> "SET_ROUTE", payload |-> p.routeCoords],
                 [type |-> "SET_ORDER_STATUS", payload |-> p.orderStatus],
                 [type |-> "SET_CONNECTED", payload |-> TRUE] >>),
            << >>, [event |-> "connected", payload |-> p, ts |-> ts])
  /\ deliveryTs' = ts
  /\ maxTsReceived' = IF ts > maxTsReceived THEN ts ELSE maxTsReceived

\* socket.on('orderStatusUpdate')
handleOrderStatusUpdate(status, eta) ==
  /\ socketConnected
  /\ UNCHANGED <<socketConnected, isLocationStale, appState, now, deliveryTs,
                 maxTsReceived, trackingPaused, locating>>
  /\ Commit(dispatchAll(state,
              << [type |-> "SET_ORDER_STATUS", payload |-> status],
                 [type |-> "SET_ETA", payload |-> eta] >>),
            << >>, [event |-> "orderStatusUpdate", status |-> status, eta |-> eta])

\* "Start Tracking" button, rendered while !isConnected.  The button is
\* disabled while !socketConnected; the handler makes the test again itself,
\* and it is run here in both cases.
handleJoinAsCustomer ==
  /\ ~state.isConnected
  /\ UNCHANGED <<socketConnected, isLocationStale, appState, now, deliveryTs,
                 maxTsReceived, trackingPaused, locating>>
  /\ IF socketConnected
     THEN Commit(reducer(state, [type |-> "SET_ORDER_STATUS",
                                 payload |-> "Waiting for Delivery Person..."]),
                 << [event |-> "joinAsCustomer"] >>, [event |-> "pressStartTracking"])
     ELSE CommitAlert(state, << >>, [event |-> "pressStartTracking"], << "Error" >>)

\* what one AppState 'change' listener emits
appStateListener(nextAppState) ==
  IF nextAppState = "background" THEN << [event |-> "pauseTracking"] >>
  ELSE IF nextAppState = "active" THEN << [event |-> "resumeTracking"] >>
  ELSE << >>

\* AppState 'change': both registered listeners run (two useEffect blocks)
handleAppStateChange(nextAppState) ==
  /\ nextAppState # appState
  /\ appState' = nextAppState
  /\ UNCHANGED <<socketConnected, isLocationStale, now, deliveryTs, maxTsReceived,
                 locating>>
  /\ Commit(state, appStateListener(nextAppState) \o appStateListener(nextAppState),
            [event |-> "appStateChange", next |-> nextAppState])
  /\ trackingPaused' = IF nextAppState = "background" THEN TRUE
                       ELSE IF nextAppState = "active" THEN FALSE
                       ELSE trackingPaused

\* ---- requestLocationUpdate: the poll and the Refresh button

\* a poll that blanks the delivery marker until the answer comes
requestUpdateBlanking ==
  /\ state.isConnected
  /\ UNCHANGED <<socketConnected, isLocationStale, appState, now, deliveryTs,
                 maxTsReceived, trackingPaused, locating>>
  /\ Commit([state EXCEPT !.deliveryCoords = Null],
            IF socketConnected THEN << [event |-> "requestLocationUpdate"] >> ELSE << >>,
            [event |-> "requestUpdateTick"])

\* a poll whose interval is never cleared and that does not look at the socket
requestUpdateUnguarded ==
  /\ UNCHANGED <<socketConnected, isLocationStale, appState, now, deliveryTs,
                 maxTsReceived, trackingPaused, locating>>
  /\ Commit(state, << [event |-> "requestLocationUpdate"] >>,
            [event |-> "requestUpdateTick"])

\* setInterval(requestUpdate, updateInterval): the interval exists while
\* isConnected; requestUpdate emits when socketConnected
requestUpdate ==
  /\ state.isConnected
  /\ UNCHANGED <<socketConnected, isLocationStale, appState, now, deliveryTs,
                 maxTsReceived, trackingPaused, locating>>
  /\ Commit(state,
            IF socketConnected THEN << [event |-> "requestLocationUpdate"] >> ELSE << >>,
            [event |-> "requestUpdateTick"])

\* "Refresh" button: rendered while isConnected && socketConnected
pressRefresh ==
  /\ state.isConnected
  /\ socketConnected
  /\ UNCHANGED <<socketConnected, isLocationStale, appState, now, deliveryTs,
                 maxTsReceived, trackingPaused, locating>>
  /\ Commit(state, << [event |-> "requestLocationUpdate"] >>, [event |-> "pressRefresh"])

\* ---- getCurrentLocation, the 'joinedAsCustomer' listener

\* getCurrentLocation invocations kept in flight
MaxLocating == 2

\* the coordinate getCurrentLocation stores and sends (40.68125, -74.19409)
CurrentLocationCoords == [latitude |-> 40, longitude |-> -74]

\* the coordinate its catch block stores (17.587686, 78.401865)
FallbackCoords == [latitude |-> 17, longitude |-> 78]

\* socket.on('joinedAsCustomer'): getCurrentLocation runs up to
\* await Location.requestForegroundPermissionsAsync()
getCurrentLocation ==
  /\ socketConnected
  /\ locating.permission + locating.position < MaxLocating
  /\ locating' = [locating EXCEPT !.permission = @ + 1]
  /\ UNCHANGED <<socketConnected, isLocationStale, appState, now, deliveryTs,
                 maxTsReceived, trackingPaused>>
  /\ Commit(state, << >>, [event |-> "joinedAsCustomer"])

\* the permission request settles: "granted", "denied" or it rejects
locationPermission(outcome) ==
  /\ locating.permission > 0
  /\ locating' = [permission |-> locating.permission - 1,
                  position |-> locating.position + (IF outcome = "granted" THEN 1 ELSE 0)]
  /\ UNCHANGED <<socketConnected, isLocationStale, appState, now, deliveryTs,
                 maxTsReceived, trackingPaused>>
  /\ CASE outcome = "granted" ->
            Commit(state, << >>, [event |-> "permission", outcome |-> outcome])
       [] outcome = "denied" ->
            CommitAlert(state, << >>, [event |-> "permission", outcome |-> outcome],
                        << "Error" >>)
       [] OTHER ->
            Commit(reducer(state, [type |-> "SET_CUSTOMER_COORDS",
                                   payload |-> FallbackCoords]),
                   << >>, [event |-> "permission", outcome |-> outcome])

\* Promise.race([getCurrentPositionAsync, 15 s timeout]) settles: "ok", the
\* position request rejects, or the timeout rejects first
locationPosition(outcome) ==
  /\ locating.position > 0
  /\ locating' = [locating EXCEPT !.position = @ - 1]
  /\ UNCHANGED <<socketConnected, isLocationStale, appState, now, deliveryTs,
                 maxTsReceived, trackingPaused>>
  /\ IF outcome = "ok"
     THEN Commit(reducer(state, [type |-> "SET_CUSTOMER_COORDS",
                                 payload |-> CurrentLocationCoords]),
                 IF socketConnected
                 THEN << [event |-> "customerLocation",
                          customerCoords |-> CurrentLocationCoords] >>
                 ELSE << >>,
                 [event |-> "position", outcome |-> outcome])
     ELSE Commit(reducer(state, [type |-> "SET_CUSTOMER_COORDS",
                                 payload |-> FallbackCoords]),
                 << >>, [event |-> "position", outcome |-> outcome])

\* a latitude no place on Earth has
CoordOutOfRange == [latitude |-> 91, longitude |-> 77]

\* what a 'deliveryLocation' event may carry
DeliveryLocationPayloads == CoordsPayloads \cup {CoordOutOfRange}

NextLayout ==
  \/ handleConnect
  \/ handleDisconnect
  \/ \E c \in DeliveryLocationPayloads, ts \in Timestamps : handleDeliveryLocation(c, ts)
  \/ \E p \in ConnectedPayloads, ts \in Timestamps : handleConnected(p, ts)
  \/ \E s \in StatusPayloads, e \in EtaPayloads : handleOrderStatusUpdate(s, e)
  \/ handleJoinAsCustomer
  \/ \E a \in {"active", "background", "inactive"} : handleAppStateChange(a)
  \/ requestUpdate
  \/ pressRefresh

\* the screen with its location lookups (SpecLocate)
NextLocate ==
  \/ handleConnect
  \/ handleDisconnect
  \/ \E p \in ConnectedPayloads : handleConnected(p, 1)
  \/ handleJoinAsCustomer
  \/ getCurrentLocation
  \/ \E r \in {"granted", "denied", "rejected"} : locationPermission(r)
  \/ \E r \in {"ok", "rejected", "timeout"} : locationPosition(r)

\* ------------------------------------------------------------------------
\* Time, for the staleness indicator (SpecStale)

MaxNow == 40000

TimeSteps == {2500, 5000}

\* time passes; timers may fire late, never early
Advance(d) ==
  /\ now + d <= MaxNow
  /\ now' = now + d
  /\ UNCHANGED <<state, socketConnected, isLocationStale, appState, freshnessDue,
                 emitted, received, deliveryTs, maxTsReceived, trackingPaused,
                 alerts, locating>>
  /\ UNCHANGED <<varsLayout1, varsDebounce, varsEngine, varsLayout2, varsSerial>>

\* the freshness check with the threshold compared by >= instead of >
checkLocationFreshnessAtThreshold ==
  /\ now >= freshnessDue
  /\ isLocationStale' = (now - state.lastLocationUpdate >= STALE_THRESHOLD)
  /\ freshnessDue' = now + FRESHNESS_INTERVAL
  /\ emitted' = << >>
  /\ received' = [event |-> "freshnessTick", at |-> now]
  /\ alerts' = << >>
  /\ UNCHANGED <<state, socketConnected, appState, now, deliveryTs, maxTsReceived,
                 trackingPaused, locating>>
  /\ UNCHANGED <<varsLayout1, varsDebounce, varsEngine, varsLayout2, varsSerial>>

\* setInterval(checkLocationFreshness, 5000)
checkLocationFreshness ==
  /\ now >= freshnessDue
  /\ isLocationStale' = (now - state.lastLocationUpdate > STALE_THRESHOLD)
  /\ freshnessDue' = now + FRESHNESS_INTERVAL
  /\ emitted' = << >>
  /\ received' = [event |-> "freshnessTick", at |-> now]
  /\ alerts' = << >>
  /\ UNCHANGED <<state, socketConnected, appState, now, deliveryTs, maxTsReceived,
                 trackingPaused, locating>>
  /\ UNCHANGED <<varsLayout1, varsDebounce, varsEngine, varsLayout2, varsSerial>>

StaleConnectedPayload ==
  [deliveryCoords |-> CoordB, customerCoords |-> CoordA,
   routeCoords |-> <<CoordA, CoordB>>, eta |-> "5 min", orderStatus |-> "In Transit"]

NextStale ==
  \/ handleConnect
  \/ handleDisconnect
  \/ handleDeliveryLocation(CoordA, 1)
  \/ handleConnected(StaleConnectedPayload, 1)
  \/ handleOrderStatusUpdate("Delivered", NoEta)
  \/ handleJoinAsCustomer
  \/ \E a \in {"active", "background"} : handleAppStateChange(a)
  \/ \E d \in TimeSteps : Advance(d)
  \/ checkLocationFreshness

(***************************************************************************)
(* _layout1.tsx : customer place-order screen                              *)
(***************************************************************************)

TARGET_ORDER_ID == "12345"

OrderIdPayloads == {TARGET_ORDER_ID, "67890"}

\* eta : string | undefined
Undefined == "undefined"

\* the hard-coded coordinate handlePlaceOrder stores (17.3843, 78.4583)
PlaceOrderCoords == [latitude |-> 17, longitude |-> 78]

\* a coordinate on the equator: its latitude is falsy in JavaScript
CoordZeroLat == [latitude |-> 0, longitude |-> 77]

LocationPayloads1 == {CoordA, CoordB, CoordZeroLat, Null}

\* handlePlaceOrder invocations and unacknowledged joins kept in flight
MaxPending == 2

initialState1 ==
  [deliveryCoords |-> Null, customerCoords |-> Null, orderStatus |-> "Pending",
   eta |-> Undefined, routeCoords |-> << >>, orderPlaced |-> FALSE]

reducer1(s, action) ==
  CASE action.type = "SET_DELIVERY_COORDS" ->
         [s EXCEPT !.deliveryCoords = action.payload]
    [] action.type = "SET_CUSTOMER_COORDS" ->
         [s EXCEPT !.customerCoords = action.payload]
    [] action.type = "SET_ORDER_STATUS" ->
         [s EXCEPT !.orderStatus = action.payload]
    [] action.type = "SET_ETA" ->
         [s EXCEPT !.eta = action.payload]
    [] action.type = "SET_ROUTE" ->
         [s EXCEPT !.routeCoords = action.payload]
    [] action.type = "SET_ORDER_PLACED" ->
         [s EXCEPT !.orderPlaced = action.payload]
    [] OTHER -> s

\* ---- debounce(fn, 1000) from lodash, trailing edge only (the default)

DEBOUNCE_WAIT == 1000

NoTimer == -1

NoTime == -1

\* calls of sendLocationUpdate made in SpecDebounce
MaxCalls == 3

shouldInvoke(time) ==
  \/ lastCallTime = NoTime
  \/ time - lastCallTime >= DEBOUNCE_WAIT
  \/ time - lastCallTime < 0

\* a debounced function that also passes every call on at once (leading edge)
debouncedCallLeading(coords) ==
  /\ lastArgs' = coords
  /\ lastCallTime' = now
  /\ timerId' = IF timerId = NoTimer THEN now + DEBOUNCE_WAIT ELSE timerId
  /\ callLog' = Append(callLog, [at |-> now, coords |-> coords])
  /\ sentLog' = Append(sentLog, [at |-> now, coords |-> coords,
                                 call |-> Len(callLog) + 1])

\* sendLocationUpdate(coords): the debounced function is called.  Nothing is
\* emitted here (leading: false); the call is remembered and a timer started
\* unless one is pending.
debouncedCall(coords) ==
  /\ lastArgs' = coords
  /\ lastCallTime' = now
  /\ timerId' = IF timerId = NoTimer THEN now + DEBOUNCE_WAIT ELSE timerId
  /\ callLog' = Append(callLog, [at |-> now, coords |-> coords])
  /\ UNCHANGED sentLog

\* useEffect(..., [orderPlaced, customerCoords, sendLocationUpdate]): runs
\* after a render in which orderPlaced or the customerCoords object changed
sendLocationEffect(s2, coordsSet) ==
  IF (s2.orderPlaced # state1.orderPlaced \/ coordsSet)
     /\ s2.orderPlaced /\ s2.customerCoords # Null
  THEN debouncedCall(s2.customerCoords)
  ELSE UNCHANGED varsDebounce

\* useEffect(..., [routeCoords, orderStatus]): the interval is set up again
\* and its callback closes over the eta of that render
etaCaptureEffect(s2) ==
  etaCaptured1' = IF s2.routeCoords # state1.routeCoords
                     \/ s2.orderStatus # state1.orderStatus
                  THEN s2.eta ELSE etaCaptured1

Commit1(s2, coordsSet, out, ev, al, nt) ==
  /\ state1' = s2
  /\ sendLocationEffect(s2, coordsSet)
  /\ etaCaptureEffect(s2)
  /\ emitted1' = out
  /\ received1' = ev
  /\ alerts1' = al
  /\ notified1' = nt
  /\ UNCHANGED <<varsLayout, varsEngine, varsLayout2, varsSerial>>

InitLayout1 ==
  /\ state1 = initialState1
  /\ socketUp1 = FALSE
  /\ placing1 = [permission |-> 0, position |-> 0]
  /\ acksPending1 = 0
  /\ etaCaptured1 = Undefined
  /\ emitted1 = << >>
  /\ received1 = [event |-> "mount"]
  /\ alerts1 = << >>
  /\ notified1 = << >>

InitDebounce ==
  /\ timerId = NoTimer
  /\ lastArgs = Null
  /\ lastCallTime = NoTime
  /\ callLog = << >>
  /\ sentLog = << >>

\* socket.on('connect')
onConnect1 ==
  /\ ~socketUp1
  /\ socketUp1' = TRUE
  /\ Commit1(state1, FALSE, << [event |-> "joinOrder", orderId |-> TARGET_ORDER_ID] >>,
             [event |-> "connect"], << >>, << >>)
  /\ UNCHANGED <<placing1, acksPending1>>

\* the socket drops; no 'disconnect' listener is registered
onDisconnect1 ==
  /\ socketUp1
  /\ socketUp1' = FALSE
  /\ Commit1(state1, FALSE, << >>, [event |-> "disconnect"], << >>, << >>)
  /\ UNCHANGED <<placing1, acksPending1>>

\* socket.on('connect_error')
onConnectError1 ==
  /\ ~socketUp1
  /\ Commit1(state1, FALSE, << >>, [event |-> "connect_error"],
             << "Connection Error" >>, << >>)
  /\ UNCHANGED <<socketUp1, placing1, acksPending1>>

\* JavaScript truthiness of coords?.latitude && coords?.longitude
truthyCoords(coords) ==
  /\ coords # Null
  /\ coords.latitude # 0
  /\ coords.longitude # 0

\* socket.on('deliveryLocationUpdate')
handleDeliveryLocationUpdate(orderId, coords) ==
  /\ socketUp1
  /\ Commit1(IF orderId = TARGET_ORDER_ID /\ truthyCoords(coords)
             THEN reducer1(state1, [type |-> "SET_DELIVERY_COORDS", payload |-> coords])
             ELSE state1,
             FALSE, << >>,
             [event |-> "deliveryLocationUpdate", orderId |-> orderId, coords |-> coords],
             << >>, << >>)
  /\ UNCHANGED <<socketUp1, placing1, acksPending1>>

\* 'orderAssigned' arrives: socket.on('orderAssigned', handleOrderAssigned) is
\* commented out, so no listener runs
onOrderAssigned1(p) ==
  /\ socketUp1
  /\ Commit1(state1, FALSE, << >>, [event |-> "orderAssigned", payload |-> p],
             << >>, << >>)
  /\ UNCHANGED <<socketUp1, placing1, acksPending1>>

\* "Place Order" button (rendered while !orderPlaced): handlePlaceOrder runs
\* up to await Location.requestForegroundPermissionsAsync()
pressPlaceOrder ==
  /\ ~state1.orderPlaced
  /\ placing1.permission + placing1.position + acksPending1 < MaxPending
  /\ placing1' = [placing1 EXCEPT !.permission = @ + 1]
  /\ Commit1(state1, FALSE, << >>, [event |-> "pressPlaceOrder"], << >>, << >>)
  /\ UNCHANGED <<socketUp1, acksPending1>>

\* the permission request settles: "granted", "denied" or it rejects
placeOrderPermission(outcome) ==
  /\ placing1.permission > 0
  /\ placing1' = [permission |-> placing1.permission - 1,
                  position |-> placing1.position + (IF outcome = "granted" THEN 1 ELSE 0)]
  /\ Commit1(state1, FALSE, << >>, [event |-> "permission", outcome |-> outcome],
             CASE outcome = "granted" -> << >>
               [] outcome = "denied" -> << "Permission Denied" >>
               [] OTHER -> << "Error" >>,
             << >>)
  /\ UNCHANGED <<socketUp1, acksPending1>>

\* getCurrentPositionAsync settles: "ok" or it rejects
placeOrderPosition(outcome) ==
  /\ placing1.position > 0
  /\ placing1' = [placing1 EXCEPT !.position = @ - 1]
  /\ IF outcome = "ok"
     THEN /\ Commit1(reducer1(state1, [type |-> "SET_CUSTOMER_COORDS",
                                       payload |-> PlaceOrderCoords]),
                     TRUE, << [event |-> "joinOrder", ack |-> TRUE] >>,
                     [event |-> "position", outcome |-> outcome], << >>, << >>)
          /\ acksPending1' = acksPending1 + 1
     ELSE /\ Commit1(state1, FALSE, << >>, [event |-> "position", outcome |-> outcome],
                     << "Error" >>, << >>)
          /\ UNCHANGED acksPending1
  /\ UNCHANGED socketUp1

\* the server acknowledges a joinOrder: the callback passed to emit runs
joinOrderAck(routeCoords) ==
  /\ socketUp1
  /\ acksPending1 > 0
  /\ acksPending1' = acksPending1 - 1
  /\ Commit1(reducer1(state1, [type |-> "SET_ROUTE", payload |-> routeCoords]),
             FALSE, << >>, [event |-> "joinOrderAck", routeCoords |-> routeCoords],
             << "Success" >>, << >>)
  /\ UNCHANGED <<socketUp1, placing1>>

\* setInterval(..., 10000): the ETA / proximity tick
etaTick1 ==
  /\ IF Len(state1.routeCoords) > 0 /\ state1.orderStatus # "Delivered"
     THEN Commit1(reducer1(state1, [type |-> "SET_ETA", payload |-> etaCaptured1]),
                  FALSE, << >>, [event |-> "etaTick"], << >>,
                  << "Delivery is Near!" >>)
     ELSE Commit1(reducer1(state1, [type |-> "SET_ETA", payload |-> Undefined]),
                  FALSE, << >>, [event |-> "etaTick"], << >>, << >>)
  /\ UNCHANGED <<socketUp1, placing1, acksPending1>>

OrderAssignedPayloads ==
  [orderId : {TARGET_ORDER_ID}, deliveryCoords : CoordsPayloads,
   routeCoords : {<<CoordA, CoordB>>}]

NextLayout1 ==
  \/ onConnect1
  \/ onDisconnect1
  \/ onConnectError1
  \/ \E o \in OrderIdPayloads, c \in LocationPayloads1 : handleDeliveryLocationUpdate(o, c)
  \/ \E p \in OrderAssignedPayloads : onOrderAssigned1(p)
  \/ pressPlaceOrder
  \/ \E r \in {"granted", "denied", "rejected"} : placeOrderPermission(r)
  \/ \E r \in {"ok", "rejected"} : placeOrderPosition(r)
  \/ \E r \in RoutePayloads : joinOrderAck(r)
  \/ etaTick1

\* ---- the debounced sender on its own (SpecDebounce)

\* sendLocationUpdate(coords) is called
sendLocationUpdate(coords) ==
  /\ Len(callLog) < MaxCalls
  /\ debouncedCall(coords)
  /\ emitted1' = << >>
  /\ received1' = [event |-> "sendLocationUpdate", coords |-> coords]
  /\ UNCHANGED <<state1, socketUp1, placing1, acksPending1, etaCaptured1, alerts1,
                 notified1, varsLayout, varsEngine, varsLayout2, varsSerial>>

\* the debounce timer fires: timerExpired of lodash's debounce
timerExpired ==
  /\ timerId # NoTimer
  /\ now >= timerId
  /\ IF shouldInvoke(now)
     THEN /\ timerId' = NoTimer
          /\ lastArgs' = Null
          /\ IF lastArgs # Null
             THEN /\ emitted1' = << [event |-> "customerLocationUpdate",
                                     orderId |-> TARGET_ORDER_ID, coords |-> lastArgs] >>
                  /\ sentLog' = Append(sentLog, [at |-> now, coords |-> lastArgs,
                                                 call |-> Len(callLog)])
             ELSE /\ emitted1' = << >>
                  /\ UNCHANGED sentLog
     ELSE /\ timerId' = now + (DEBOUNCE_WAIT - (now - lastCallTime))
          /\ emitted1' = << >>
          /\ UNCHANGED <<lastArgs, sentLog>>
  /\ received1' = [event |-> "debounceTimer", at |-> now]
  /\ UNCHANGED <<lastCallTime, callLog>>
  /\ UNCHANGED <<state1, socketUp1, placing1, acksPending1, etaCaptured1, alerts1,
                 notified1, varsLayout, varsEngine, varsLayout2, varsSerial>>

MaxNowDebounce == 4000

DebounceSteps == {500, 1000}

AdvanceDebounce(d) ==
  /\ now + d <= MaxNowDebounce
  /\ now' = now + d
  /\ UNCHANGED <<state, socketConnected, isLocationStale, appState, freshnessDue,
                 emitted, received, deliveryTs, maxTsReceived, trackingPaused,
                 alerts, locating>>
  /\ UNCHANGED <<varsLayout1, varsDebounce, varsEngine, varsLayout2, varsSerial>>

NextDebounce ==
  \/ \E c \in CoordsPayloads : sendLocationUpdate(c)
  \/ timerExpired
  \/ \E d \in DebounceSteps : AdvanceDebounce(d)

(***************************************************************************)
(* The tracking engine the screens talk to (spec sections 4.3 and 4.4).    *)
(* The repository holds only its callers (the joinOrder / joinAsCustomer   *)
(* emissions of the screens); the operations are written from the spec.    *)
(***************************************************************************)

NoConn == "none"

ConnectionRefs == {"k1", "k2"}

Roles == {"customer", "agent"}

\* participant slot filled: someone is attached and still connected
Filled(session, role) ==
  /\ session # Null
  /\ session[role] # Null
  /\ session[role].conn # NoConn

EngineDone(op, orderId, role, conn, outcome) ==
  /\ result' = [op |-> op, orderId |-> orderId, role |-> role, conn |-> conn,
                outcome |-> outcome]
  /\ UNCHANGED <<varsLayout, varsLayout1, varsDebounce, varsLayout2, varsSerial>>

\* placeOrder that starts the session over on every invocation
placeOrderRecreate(orderId, coord, conn) ==
  /\ sessions' = [sessions EXCEPT ![orderId] =
                    [status |-> "AwaitingAssignment",
                     customer |-> [coord |-> coord, conn |-> conn],
                     agent |-> Null, route |-> << >>]]
  /\ EngineDone("placeOrder", orderId, "customer", conn, "ok")

\* placeOrder(orderId, customerCoordinate): joinOrder as received
placeOrder(orderId, coord, conn) ==
  /\ IF sessions[orderId] # Null /\ sessions[orderId].status \notin {"Delivered", "Cancelled"}
     THEN UNCHANGED sessions
     ELSE sessions' = [sessions EXCEPT ![orderId] =
                         [status |-> "AwaitingAssignment",
                          customer |-> [coord |-> coord, conn |-> conn],
                          agent |-> Null, route |-> << >>]]
  /\ EngineDone("placeOrder", orderId, "customer", conn, "ok")

\* joinAsRole that lets the newcomer take the slot
joinAsRoleReplace(orderId, role, conn) ==
  /\ sessions[orderId] # Null
  /\ sessions' = [sessions EXCEPT ![orderId][role] =
                    [coord |-> IF @ = Null THEN Null ELSE @.coord, conn |-> conn]]
  /\ EngineDone("joinAsRole", orderId, role, conn, "ok")

\* joinAsRole(orderId, role, connectionRef)
joinAsRole(orderId, role, conn) ==
  LET session == sessions[orderId] IN
  CASE session = Null ->
         UNCHANGED sessions /\ EngineDone("joinAsRole", orderId, role, conn, "UnknownOrder")
    [] Filled(session, role) ->
         UNCHANGED sessions
         /\ EngineDone("joinAsRole", orderId, role, conn, "RoleAlreadyFilled")
    [] OTHER ->
         IF session.status \in {"Delivered", "Cancelled"}
         THEN UNCHANGED sessions
              /\ EngineDone("joinAsRole", orderId, role, conn, "SessionTerminal")
         ELSE sessions' = [sessions EXCEPT ![orderId][role] =
                             [coord |-> IF @ = Null THEN Null ELSE @.coord,
                              conn |-> conn]]
              /\ EngineDone("joinAsRole", orderId, role, conn, "ok")

\* leave(orderId, role): the connection goes, the coordinates stay
leave(orderId, role) ==
  LET session == sessions[orderId] IN
  IF session = Null
  THEN UNCHANGED sessions /\ EngineDone("leave", orderId, role, NoConn, "UnknownOrder")
  ELSE /\ sessions' = [sessions EXCEPT ![orderId][role] =
                         IF @ = Null THEN Null ELSE [@ EXCEPT !.conn = NoConn]]
       /\ EngineDone("leave", orderId, role, NoConn, "ok")

\* assignAgent(orderId, agentCoordinate, route)
assignAgent(orderId, coord, route, conn) ==
  LET session == sessions[orderId] IN
  CASE session = Null ->
         UNCHANGED sessions /\ EngineDone("assignAgent", orderId, "agent", conn, "UnknownOrder")
    [] session # Null /\ session.status # "AwaitingAssignment" ->
         UNCHANGED sessions
         /\ EngineDone("assignAgent", orderId, "agent", conn,
                       IF session.status \in {"Delivered", "Cancelled"}
                       THEN "SessionTerminal" ELSE "InvalidTransition")
    [] OTHER ->
         /\ sessions' = [sessions EXCEPT ![orderId] =
                           [@ EXCEPT !.status = "Assigned",
                                     !.agent = [coord |-> coord, conn |-> conn],
                                     !.route = route]]
         /\ EngineDone("assignAgent", orderId, "agent", conn, "ok")

\* cancel(orderId, reason)
cancel(orderId) ==
  LET session == sessions[orderId] IN
  CASE session = Null ->
         UNCHANGED sessions /\ EngineDone("cancel", orderId, "none", NoConn, "UnknownOrder")
    [] session # Null /\ session.status \in {"Delivered", "Cancelled"} ->
         UNCHANGED sessions /\ EngineDone("cancel", orderId, "none", NoConn, "SessionTerminal")
    [] OTHER ->
         /\ sessions' = [sessions EXCEPT ![orderId].status = "Cancelled"]
         /\ EngineDone("cancel", orderId, "none", NoConn, "ok")

NextEngine ==
  \/ \E o \in OrderIdPayloads, c \in CoordsPayloads, k \in ConnectionRefs : placeOrder(o, c, k)
  \/ \E o \in OrderIdPayloads, r \in Roles, k \in ConnectionRefs : joinAsRole(o, r, k)
  \/ \E o \in OrderIdPayloads, r \in Roles : leave(o, r)
  \/ \E o \in OrderIdPayloads, k \in ConnectionRefs :
        assignAgent(o, CoordB, <<CoordA, CoordB>>, k)
  \/ \E o \in OrderIdPayloads : cancel(o)

InitEngine ==
  /\ sessions = [o \in OrderIdPayloads |-> Null]
  /\ result = [op |-> "none", orderId |-> "none", role |-> "none", conn |-> NoConn,
               outcome |-> "none"]

(***************************************************************************)
(* _layout2.tsx : delivery-side screen (reducer)                           *)
(***************************************************************************)

initialState2 ==
  [deliveryCoords |-> Null, customerCoords |-> Null, orderStatus |-> "Pending",
   eta |-> NoEta, routeCoords |-> << >>, orderAssigned |-> FALSE]

reducer2(s, action) ==
  CASE action.type = "SET_DELIVERY_COORDS" ->
         [s EXCEPT !.deliveryCoords = action.payload]
    [] action.type = "SET_CUSTOMER_COORDS" ->
         [s EXCEPT !.customerCoords = action.payload]
    [] action.type = "SET_ORDER_STATUS" ->
         [s EXCEPT !.orderStatus = action.payload]
    [] action.type = "SET_ETA" ->
         [s EXCEPT !.eta = action.payload]
    [] action.type = "SET_ROUTE" ->
         [s EXCEPT !.routeCoords = action.payload]
    [] action.type = "SET_ORDER_ASSIGNED" ->
         [s EXCEPT !.orderAssigned = action.payload]
    [] OTHER -> s

InitLayout2 ==
  /\ state2 = initialState2
  /\ connected2 = FALSE
  /\ socketUp2 = FALSE
  /\ listeners2 = [customerLocation |-> 0, connected |-> 0, error |-> 0]
  /\ locating2 = [permission |-> 0, position |-> 0]
  /\ handled2 = 0
  /\ emitted2 = << >>
  /\ received2 = [event |-> "mount"]
  /\ alerts2 = << >>

\* listeners kept per event
MaxListeners == 3

\* n copies of x
RECURSIVE Repeat(_, _)
Repeat(x, n) == IF n = 0 THEN << >> ELSE <<x>> \o Repeat(x, n - 1)

\* what one step of the screen leaves behind
Commit2(s2, n, out, ev, al) ==
  /\ state2' = s2
  /\ handled2' = n
  /\ emitted2' = out
  /\ received2' = ev
  /\ alerts2' = al
  /\ UNCHANGED <<varsLayout, varsLayout1, varsDebounce, varsEngine, varsSerial>>

\* getLocationOfDelivery() up to await requestForegroundPermissionsAsync()
startLocationOfDelivery ==
  locating2' = [locating2 EXCEPT !.permission = @ + 1]

\* getLocationOfDestination(): socket.on('customerLocation', ...), one more
\* listener on every call
registerCustomerLocation ==
  [listeners2 EXCEPT !.customerLocation = @ + 1]

\* socket.on('connect'): the handler registers the 'error' and 'connected'
\* listeners again on every (re)connect
onConnect2 ==
  /\ ~socketUp2
  /\ listeners2.customerLocation < MaxListeners
  /\ listeners2.connected < MaxListeners
  /\ locating2.permission + locating2.position < MaxLocating
  /\ socketUp2' = TRUE
  /\ connected2' = TRUE
  /\ listeners2' = [registerCustomerLocation EXCEPT !.error = @ + 1,
                                                    !.connected = @ + 1]
  /\ startLocationOfDelivery
  /\ Commit2(state2, 1, << >>, [event |-> "connect"], << >>)

\* the socket drops; no 'disconnect' listener is registered and the
\* listeners stay on the socket
onDisconnect2 ==
  /\ socketUp2
  /\ socketUp2' = FALSE
  /\ Commit2(state2, 0, << >>, [event |-> "disconnect"], << >>)
  /\ UNCHANGED <<connected2, listeners2, locating2>>

\* "recieve order" button (rendered while !orderAssigned): handleConnect
handleConnect2 ==
  /\ ~state2.orderAssigned
  /\ listeners2.customerLocation < MaxListeners
  /\ locating2.permission + locating2.position < MaxLocating
  /\ startLocationOfDelivery
  /\ listeners2' = registerCustomerLocation
  /\ IF state2.customerCoords # Null /\ state2.deliveryCoords # Null
     THEN Commit2(state2, 1,
                  << [event |-> "customerLocation",
                      deliveryCoords |-> state2.deliveryCoords],
                     [event |-> "joinOrder"] >>,
                  [event |-> "pressReceiveOrder"], << >>)
     ELSE Commit2(state2, 1, << >>, [event |-> "pressReceiveOrder"], << "Error" >>)
  /\ UNCHANGED <<connected2, socketUp2>>

\* the permission request settles: "granted", "denied" or it rejects
locationPermission2(outcome) ==
  /\ locating2.permission > 0
  /\ locating2' = [permission |-> locating2.permission - 1,
                   position |-> locating2.position + (IF outcome = "granted" THEN 1 ELSE 0)]
  /\ Commit2(state2, 1, << >>, [event |-> "permission", outcome |-> outcome],
             IF outcome = "granted" THEN << >> ELSE << "Error" >>)
  /\ UNCHANGED <<connected2, socketUp2, listeners2>>

\* getCurrentPositionAsync settles: "ok" with the device's position, or it rejects
locationPosition2(outcome, coords) ==
  /\ locating2.position > 0
  /\ locating2' = [locating2 EXCEPT !.position = @ - 1]
  /\ IF outcome = "ok"
     THEN Commit2(reducer2(state2, [type |-> "SET_CUSTOMER_COORDS", payload |-> coords]),
                  1, << >>, [event |-> "position", outcome |-> outcome], << >>)
     ELSE Commit2(state2, 1, << >>, [event |-> "position", outcome |-> outcome],
                  << "Error" >>)
  /\ UNCHANGED <<connected2, socketUp2, listeners2>>

\* 'customerLocation' arrives: every registered listener dispatches
\* SET_DELIVERY_COORDS
onCustomerLocation2(coords) ==
  /\ socketUp2
  /\ Commit2(IF listeners2.customerLocation > 0
             THEN reducer2(state2, [type |-> "SET_DELIVERY_COORDS", payload |-> coords])
             ELSE state2,
             listeners2.customerLocation, << >>,
             [event |-> "customerLocation", coords |-> coords], << >>)
  /\ UNCHANGED <<connected2, socketUp2, listeners2, locating2>>

\* 'connected' arrives: every registered listener sets connected, dispatches
\* the three values and shows the 'Success' alert
onConnected2(p) ==
  /\ socketUp2
  /\ connected2' = (connected2 \/ listeners2.connected > 0)
  /\ Commit2(IF listeners2.connected > 0
             THEN reducer2(reducer2(reducer2(state2,
                    [type |-> "SET_CUSTOMER_COORDS", payload |-> p.customerCoords]),
                    [type |-> "SET_DELIVERY_COORDS", payload |-> p.deliveryCoords]),
                    [type |-> "SET_ROUTE", payload |-> p.routeCoords])
             ELSE state2,
             listeners2.connected, << >>, [event |-> "connected", payload |-> p],
             Repeat("Success", listeners2.connected))
  /\ UNCHANGED <<socketUp2, listeners2, locating2>>

\* 'error' arrives: every registered listener shows the message
onError2 ==
  /\ socketUp2
  /\ Commit2(state2, listeners2.error, << >>, [event |-> "error"],
             Repeat("Error", listeners2.error))
  /\ UNCHANGED <<connected2, socketUp2, listeners2, locating2>>

ConnectedPayloads2 ==
  [deliveryCoords : CoordsPayloads, customerCoords : {CoordA},
   routeCoords : RoutePayloads]

NextLayout2 ==
  \/ onConnect2
  \/ onDisconnect2
  \/ handleConnect2
  \/ \E r \in {"granted", "denied", "rejected"} : locationPermission2(r)
  \/ \E r \in {"ok", "rejected"} : locationPosition2(r, CoordA)
  \/ \E c \in CoordsPayloads : onCustomerLocation2(c)
  \/ \E p \in ConnectedPayloads2 : onConnected2(p)
  \/ onError2

(***************************************************************************)
(* The three reducers on their own (SpecReducer): one action object is     *)
(* handed to the reducer of every screen.                                  *)
(***************************************************************************)

\* routes an action may carry
RouteActionPayloads == RoutePayloads \cup {<<CoordB>>}

\* partial states a BATCH_UPDATE may carry
BatchPayloads == {[routeCoords |-> <<CoordB>>], [orderStatus |-> "In Transit"]}

\* values a SET_LAST_UPDATE may carry
LastUpdatePayloads == {0, 2500}

dispatch(action) ==
  /\ state' = reducer(state, action)
  /\ state1' = reducer1(state1, action)
  /\ state2' = reducer2(state2, action)
  /\ received' = [event |-> "dispatch", type |-> action.type]
  /\ UNCHANGED <<connected2, socketUp2, listeners2, locating2, handled2, emitted2,
                 received2, alerts2>>
  /\ UNCHANGED <<socketConnected, isLocationStale, appState, now, freshnessDue,
                 emitted, deliveryTs, maxTsReceived, trackingPaused, alerts, locating>>
  /\ UNCHANGED <<socketUp1, placing1, acksPending1, etaCaptured1, emitted1,
                 received1, alerts1, notified1>>
  /\ UNCHANGED <<varsDebounce, varsEngine, varsSerial>>

NextReducer ==
  \/ \E c \in CoordsPayloads : dispatch([type |-> "SET_DELIVERY_COORDS", payload |-> c])
  \/ \E c \in CoordsPayloads : dispatch([type |-> "SET_CUSTOMER_COORDS", payload |-> c])
  \/ \E st \in {"In Transit", "Delivered"} :
        dispatch([type |-> "SET_ORDER_STATUS", payload |-> st])
  \/ \E e \in EtaPayloads : dispatch([type |-> "SET_ETA", payload |-> e])
  \/ \E r \in RouteActionPayloads : dispatch([type |-> "SET_ROUTE", payload |-> r])
  \/ \E b \in BOOLEAN : dispatch([type |-> "SET_CONNECTED", payload |-> b])
  \/ \E b \in BOOLEAN : dispatch([type |-> "SET_ORDER_PLACED", payload |-> b])
  \/ \E b \in BOOLEAN : dispatch([type |-> "SET_ORDER_ASSIGNED", payload |-> b])
  \/ \E t \in LastUpdatePayloads : dispatch([type |-> "SET_LAST_UPDATE", payload |-> t])
  \/ \E p \in BatchPayloads : dispatch([type |-> "BATCH_UPDATE", payload |-> p])
  \/ dispatch([type |-> "SET_NOTHING", payload |-> 0])

(***************************************************************************)
(* A delivery-location update and a status update in flight together       *)
(* (SpecSerial).  JavaScript runs each listener to completion, so only the *)
(* two sequential orders occur in the program; here the three dispatch     *)
(* calls of the two listeners may interleave in every way.                 *)
(***************************************************************************)

MaxNowSerial == 2000

SerialSteps == {1000}

InitSerial == race = Null

\* dispatch that reduces from the state the listener was registered with
applyDispatchStale(action) ==
  /\ Render(reducer(race.base, action), << >>,
            [event |-> "raceDispatch", type |-> action.type], << >>)

\* dispatch(action): React reduces the action from the current state
applyDispatch(action) ==
  /\ Render(reducer(state, action), << >>,
            [event |-> "raceDispatch", type |-> action.type], << >>)

\* 'deliveryLocation' (coords) and 'orderStatusUpdate' ({status, eta}) arrive
raceArrive(coords, status, eta) ==
  /\ socketConnected
  /\ race = Null
  /\ race' = [coords |-> coords, status |-> status, eta |-> eta, base |-> state,
              pcDelivery |-> 1, pcStatus |-> 2, deliveredAt |-> 0, order |-> << >>]
  /\ received' = [event |-> "raceArrive"]
  /\ UNCHANGED <<state, socketConnected, isLocationStale, appState, now, freshnessDue,
                 emitted, deliveryTs, maxTsReceived, trackingPaused, alerts, locating>>
  /\ UNCHANGED <<varsLayout1, varsDebounce, varsEngine, varsLayout2>>

\* handleDeliveryLocation's dispatch
deliveryDispatch ==
  /\ race # Null
  /\ race.pcDelivery = 1
  /\ UNCHANGED <<socketConnected, isLocationStale, appState, now, deliveryTs,
                 maxTsReceived, trackingPaused, locating>>
  /\ applyDispatch([type |-> "SET_DELIVERY_COORDS", payload |-> race.coords])
  /\ race' = [race EXCEPT !.pcDelivery = 0, !.deliveredAt = now,
                          !.order = Append(@, "SET_DELIVERY_COORDS")]

\* the orderStatusUpdate listener's two dispatches, one per step
statusDispatch ==
  /\ race # Null
  /\ race.pcStatus > 0
  /\ UNCHANGED <<socketConnected, isLocationStale, appState, now, deliveryTs,
                 maxTsReceived, trackingPaused, locating>>
  /\ IF race.pcStatus = 2
     THEN /\ applyDispatch([type |-> "SET_ORDER_STATUS", payload |-> race.status])
          /\ race' = [race EXCEPT !.pcStatus = 1,
                                  !.order = Append(@, "SET_ORDER_STATUS")]
     ELSE /\ applyDispatch([type |-> "SET_ETA", payload |-> race.eta])
          /\ race' = [race EXCEPT !.pcStatus = 0, !.order = Append(@, "SET_ETA")]

\* time passes while the two updates are being handled
AdvanceSerial(d) ==
  /\ race # Null
  /\ race.pcDelivery + race.pcStatus > 0
  /\ now + d <= MaxNowSerial
  /\ now' = now + d
  /\ UNCHANGED <<state, socketConnected, isLocationStale, appState, freshnessDue,
                 emitted, received, deliveryTs, maxTsReceived, trackingPaused,
                 alerts, locating>>
  /\ UNCHANGED <<varsLayout1, varsDebounce, varsEngine, varsLayout2, varsSerial>>

NextSerial ==
  \/ race = Null /\ handleConnect
  \/ race = Null /\ \E p \in ConnectedPayloads : handleConnected(p, 1)
  \/ \E c \in CoordsPayloads, s \in StatusPayloads, e \in EtaPayloads : raceArrive(c, s, e)
  \/ deliveryDispatch
  \/ statusDispatch
  \/ \E d \in SerialSteps : AdvanceSerial(d)

vars == <<varsLayout, varsLayout1, varsDebounce, varsEngine, varsLayout2, varsSerial>>

Init ==
  /\ InitLayout /\ InitLayout1 /\ InitDebounce /\ InitEngine
  /\ InitLayout2 /\ InitSerial

Next == NextLayout

Spec == Init /\ [][Next]_vars

SpecStale == Init /\ [][NextStale]_vars

Spec1 == Init /\ [][NextLayout1]_vars

SpecDebounce == Init /\ [][NextDebounce]_vars

SpecEngine == Init /\ [][NextEngine]_vars

SpecReducer == Init /\ [][NextReducer]_vars

SpecLocate == Init /\ [][NextLocate]_vars

SpecSerial == Init /\ [][NextSerial]_vars

Spec2 == Init /\ [][NextLayout2]_vars

\* the place-order screen with its 10 s interval timer firing for ever
Spec1Live == Init /\ [][NextLayout1]_vars /\ WF_vars(etaTick1)

(***************************************************************************)
(* Claims                                                                  *)
(***************************************************************************)

\* Position of a status in AwaitingAssignment < Assigned < PickedUp <
\* InTransit < Delivered.  The screens' "Pending" and "Waiting ..." strings
\* are the not-yet-assigned status; Cancelled is terminal and comes last.
StatusRank(st) ==
  CASE st = "Assigned" -> 1
    [] st = "Picked Up" -> 2
    [] st = "In Transit" -> 3
    [] st = "Delivered" -> 4
    [] st = "Cancelled" -> 5
    [] OTHER -> 0

Terminal(st) == st \in {"Delivered", "Cancelled"}

\* The delivery coordinate is within the arrival threshold (100 m) of the
\* route's last waypoint.  Coordinates are whole degrees, so two different
\* ones are more than 100 km apart: only the waypoint itself is within reach.
Arrived(c, route) == route # << >> /\ c = route[Len(route)]

\* C1 (as claimed): the order status only moves forward along
\* AwaitingAssignment < Assigned < PickedUp < InTransit < Delivered; no step
\* stores a status that is earlier in the ordering than the current one.
C1_StatusOnlyForward ==
  [][StatusRank(state'.orderStatus) >= StatusRank(state.orderStatus)]_vars

\* C2 (as claimed): once the status is Delivered or Cancelled no later step
\* changes the status, the ETA or a stored coordinate.
C2_TerminalFrozen ==
  [][Terminal(state.orderStatus) =>
       /\ state'.orderStatus = state.orderStatus
       /\ state'.eta = state.eta
       /\ state'.deliveryCoords = state.deliveryCoords
       /\ state'.customerCoords = state.customerCoords]_vars

\* C3 (as claimed): the stored delivery coordinate is always the one of the
\* report with the greatest timestamp received so far.
C3_StoredIsNewest == deliveryTs = maxTsReceived

\* C7 (as claimed): a location report that brings the delivery within the
\* arrival threshold while the status is In Transit moves the status to
\* Delivered.
C7_ArrivalDelivers ==
  [][(/\ state.orderStatus = "In Transit"
      /\ received'.event = "deliveryLocation"
      /\ received' # received
      /\ Arrived(state'.deliveryCoords, state'.routeCoords))
     => state'.orderStatus = "Delivered"]_vars

\* C10 (as claimed): while tracking is paused (pauseTracking emitted, no
\* resumeTracking yet) no stored coordinate changes.
C10_PausedDropsUpdates ==
  [][(trackingPaused /\ trackingPaused') =>
       /\ state'.deliveryCoords = state.deliveryCoords
       /\ state'.customerCoords = state.customerCoords]_vars

\* C9 (as claimed): in every state, a stale indicator means that more than
\* 30 s have passed since the last delivery-location update.
C9_StaleMeansOld ==
  isLocationStale => now - state.lastLocationUpdate > STALE_THRESHOLD

\* C9 (amended): the indicator is recomputed only by the periodic freshness
\* check; right after a check it is TRUE exactly when more than 30000 ms had
\* passed since lastLocationUpdate, and the check changes nothing else and
\* emits nothing.  Between checks it keeps its value.
C9_CheckSetsIndicator ==
  [][/\ (received' # received /\ received'.event = "freshnessTick") =>
          /\ isLocationStale' = (now - state.lastLocationUpdate > STALE_THRESHOLD)
          /\ state' = state
          /\ emitted' = << >>
          /\ socketConnected' = socketConnected
          /\ now' = now
     /\ isLocationStale' # isLocationStale =>
          (received' # received /\ received'.event = "freshnessTick")]_vars

\* C9 witness: a freshness check has just run and found the location stale.
C9_Witness ==
  /\ received.event = "freshnessTick"
  /\ isLocationStale
  /\ state.deliveryCoords # Null

C5_FilledRoleRejectsJoin ==
  [][\A o \in OrderIdPayloads, r \in Roles :
       (/\ result'.op = "joinAsRole"
        /\ result'.orderId = o
        /\ result'.role = r
        /\ Filled(sessions[o], r))
       => (result'.outcome = "RoleAlreadyFilled" /\ sessions' = sessions)]_vars

\* C5 witness: a join was refused because the role is filled, by the very
\* connection that already holds it (a client re-emitting its join).
C5_Witness ==
  /\ result.op = "joinAsRole"
  /\ result.outcome = "RoleAlreadyFilled"
  /\ Filled(sessions[result.orderId], result.role)
  /\ sessions[result.orderId][result.role].conn = result.conn

\* C6: placeOrder is idempotent per order id: invoked for an order whose
\* session exists and is not terminal it succeeds and leaves every session
\* as it was (sessions are keyed by order id, so there is one per order).
C6_PlaceOrderIdempotent ==
  [][\A o \in OrderIdPayloads :
       (/\ result'.op = "placeOrder"
        /\ result'.orderId = o
        /\ sessions[o] # Null
        /\ ~Terminal(sessions[o].status))
       => (result'.outcome = "ok" /\ sessions' = sessions)]_vars

\* C6 witness: placeOrder has just been invoked again on a session that has
\* already moved on to Assigned.
C6_Witness ==
  /\ result.op = "placeOrder"
  /\ sessions[result.orderId] # Null
  /\ sessions[result.orderId].status = "Assigned"

\* C8 (as claimed): once an orderAssigned notification has been delivered,
\* the customer screen holds the agent coordinate and the route it carried
\* and shows the status Assigned.
C8_OrderAssignedReachesCustomer ==
  [][(received1' # received1 /\ received1'.event = "orderAssigned") =>
       /\ state1'.deliveryCoords = received1'.payload.deliveryCoords
       /\ state1'.routeCoords = received1'.payload.routeCoords
       /\ state1'.orderStatus = "Assigned"]_vars

\* C11: issuing requestLocationUpdate, from the periodic poll or from the
\* Refresh button, leaves coordinates, route, status, ETA, lastLocationUpdate
\* and the connection flags exactly as they were.
C11_RequestLeavesState ==
  [][(received' # received
      /\ received'.event \in {"requestUpdateTick", "pressRefresh"})
     => /\ state' = state
        /\ socketConnected' = socketConnected
        /\ isLocationStale' = isLocationStale]_vars

\* C11 witness: the poll has just emitted requestLocationUpdate on a screen
\* that holds a delivery coordinate and a route.
C11_Witness ==
  /\ received.event = "requestUpdateTick"
  /\ emitted = << [event |-> "requestLocationUpdate"] >>
  /\ state.deliveryCoords # Null
  /\ state.routeCoords # << >>

\* C12: a socket disconnect clears only the connection flags: coordinates,
\* route, status, ETA and lastLocationUpdate stay, and the socket's
\* reconnect (the 'connect' event) finds and leaves them as they were.
C12_DisconnectKeepsTracking ==
  [][/\ (received' # received /\ received'.event = "disconnect") =>
          /\ state' = [state EXCEPT !.isConnected = FALSE]
          /\ ~socketConnected'
     /\ (received' # received /\ received'.event = "connect") =>
          /\ state' = state
          /\ socketConnected']_vars

\* C12 witness: the socket has just dropped on a screen that was tracking an
\* order in transit; the tracked data is still there.
C12_Witness ==
  /\ received.event = "disconnect"
  /\ ~state.isConnected
  /\ state.deliveryCoords # Null
  /\ state.routeCoords # << >>
  /\ state.orderStatus = "In Transit"

\* the state after the two listeners ran one after the other, the location
\* listener first or the status listener first, the location dispatch made
\* at the time it was made in the race
RaceSequential(first) ==
  LET D == [type |-> "SET_DELIVERY_COORDS", payload |-> race.coords]
      S1 == [type |-> "SET_ORDER_STATUS", payload |-> race.status]
      S2 == [type |-> "SET_ETA", payload |-> race.eta]
  IN [dispatchAll(race.base, IF first = "delivery" THEN <<D, S1, S2>>
                                                   ELSE <<S1, S2, D>>)
        EXCEPT !.lastLocationUpdate = race.deliveredAt]

\* C13: when a delivery-location update and a status update are handled
\* together, in whatever order their dispatches are made, the resulting
\* state is that of one of the two sequential orders and holds both the new
\* coordinate and the new status and ETA.
C13_NoLostUpdate ==
  (race # Null /\ race.pcDelivery = 0 /\ race.pcStatus = 0) =>
    /\ state \in {RaceSequential("delivery"), RaceSequential("status")}
    /\ state.deliveryCoords = race.coords
    /\ state.orderStatus = race.status
    /\ state.eta = race.eta

\* C13 witness: the location dispatch fell between the two dispatches of the
\* status listener, and both updates changed what was stored.
C13_Witness ==
  /\ race # Null
  /\ race.order = <<"SET_ORDER_STATUS", "SET_DELIVERY_COORDS", "SET_ETA">>
  /\ race.coords # race.base.deliveryCoords
  /\ race.status # race.base.orderStatus
  /\ race.eta # race.base.eta
  /\ race.deliveredAt > 0

InRange(c) ==
  \/ c = Null
  \/ /\ c.latitude >= -90 /\ c.latitude <= 90
     /\ c.longitude >= -180 /\ c.longitude <= 180

\* C14 (as claimed): every stored coordinate (deliveryCoords, customerCoords,
\* each route waypoint) has -90 <= latitude <= 90 and -180 <= longitude <= 180.
C14_CoordinatesInRange ==
  /\ InRange(state.deliveryCoords)
  /\ InRange(state.customerCoords)
  /\ \A i \in 1..Len(state.routeCoords) : InRange(state.routeCoords[i])

\* C15 (as claimed): a location lookup that fails (permission denied, the
\* request rejects, the timeout wins) shows an error and does not pass for a
\* success: no coordinate is stored.
C15_FailuresAreReported ==
  [][(/\ received' # received
      /\ received'.event \in {"permission", "position"}
      /\ received'.outcome \notin {"granted", "ok"})
     => (alerts' # << >> /\ state'.customerCoords = state.customerCoords)]_vars

\* C16 (as claimed): every joinOrder / joinAsCustomer emission carries an
\* orderId, and every customerLocation emission carries orderId, coords and
\* timestamp.
C16_EmissionsIdentifyOrder ==
  \A i \in 1..Len(emitted) :
    /\ emitted[i].event \in {"joinOrder", "joinAsCustomer"} =>
         "orderId" \in DOMAIN emitted[i]
    /\ emitted[i].event = "customerLocation" =>
         {"orderId", "coords", "timestamp"} \subseteq DOMAIN emitted[i]

\* C17 (as claimed): after a 'connected' event the state holds all five
\* payload values, eta included, and isConnected is true.
C17_ConnectedStoresPayload ==
  [][(received' # received /\ received'.event = "connected") =>
       /\ state'.deliveryCoords = received'.payload.deliveryCoords
       /\ state'.customerCoords = received'.payload.customerCoords
       /\ state'.routeCoords = received'.payload.routeCoords
       /\ state'.orderStatus = received'.payload.orderStatus
       /\ state'.eta = received'.payload.eta
       /\ state'.isConnected]_vars

C19_OnlySetRouteTouchesRoute ==
  /\ \A r \in RouteActionPayloads :
       LET a == [type |-> "SET_ROUTE", payload |-> r] IN
       /\ reducer(state, a).routeCoords = r
       /\ reducer1(state1, a).routeCoords = r
       /\ reducer2(state2, a).routeCoords = r
  /\ \A c \in CoordsPayloads, ty \in {"SET_DELIVERY_COORDS", "SET_CUSTOMER_COORDS"} :
       LET a == [type |-> ty, payload |-> c] IN
       /\ reducer(state, a).routeCoords = state.routeCoords
       /\ reducer1(state1, a).routeCoords = state1.routeCoords
       /\ reducer2(state2, a).routeCoords = state2.routeCoords
  /\ \A v \in StatusPayloads \cup EtaPayloads, ty \in {"SET_ORDER_STATUS", "SET_ETA"} :
       LET a == [type |-> ty, payload |-> v] IN
       /\ reducer(state, a).routeCoords = state.routeCoords
       /\ reducer1(state1, a).routeCoords = state1.routeCoords
       /\ reducer2(state2, a).routeCoords = state2.routeCoords
  /\ \A b \in BOOLEAN,
        ty \in {"SET_CONNECTED", "SET_ORDER_PLACED", "SET_ORDER_ASSIGNED", "SET_NOTHING"} :
       LET a == [type |-> ty, payload |-> b] IN
       /\ reducer(state, a).routeCoords = state.routeCoords
       /\ reducer1(state1, a).routeCoords = state1.routeCoords
       /\ reducer2(state2, a).routeCoords = state2.routeCoords
  /\ \A t \in LastUpdatePayloads :
       reducer(state, [type |-> "SET_LAST_UPDATE", payload |-> t]).routeCoords
         = state.routeCoords
  /\ \A p \in BatchPayloads :
       reducer(state, [type |-> "BATCH_UPDATE", payload |-> p]).routeCoords
         = state.routeCoords

\* C19 (amended): SET_ROUTE replaces routeCoords by its payload and changes
\* nothing else, in all three reducers.  SET_CUSTOMER_COORDS,
\* SET_ORDER_STATUS, SET_ETA and the connection / placed / assigned flags
\* change their own field only, an unknown type changes nothing, and
\* SET_DELIVERY_COORDS changes deliveryCoords only, except that the tracking
\* screen's reducer also stamps lastLocationUpdate.  That reducer has two
\* more actions: SET_LAST_UPDATE writes lastLocationUpdate only, and
\* BATCH_UPDATE writes every field its payload names, routeCoords included,
\* and stamps lastLocationUpdate.
C19_RouteReplacedWholesale ==
  /\ \A r \in RouteActionPayloads :
       LET a == [type |-> "SET_ROUTE", payload |-> r] IN
       /\ reducer(state, a) = [state EXCEPT !.routeCoords = r]
       /\ reducer1(state1, a) = [state1 EXCEPT !.routeCoords = r]
       /\ reducer2(state2, a) = [state2 EXCEPT !.routeCoords = r]
  /\ \A c \in CoordsPayloads :
       LET d == [type |-> "SET_DELIVERY_COORDS", payload |-> c]
           k == [type |-> "SET_CUSTOMER_COORDS", payload |-> c] IN
       /\ reducer(state, d) = [state EXCEPT !.deliveryCoords = c,
                                            !.lastLocationUpdate = now]
       /\ reducer1(state1, d) = [state1 EXCEPT !.deliveryCoords = c]
       /\ reducer2(state2, d) = [state2 EXCEPT !.deliveryCoords = c]
       /\ reducer(state, k) = [state EXCEPT !.customerCoords = c]
       /\ reducer1(state1, k) = [state1 EXCEPT !.customerCoords = c]
       /\ reducer2(state2, k) = [state2 EXCEPT !.customerCoords = c]
  /\ \A st \in StatusPayloads :
       LET a == [type |-> "SET_ORDER_STATUS", payload |-> st] IN
       /\ reducer(state, a) = [state EXCEPT !.orderStatus = st]
       /\ reducer1(state1, a) = [state1 EXCEPT !.orderStatus = st]
       /\ reducer2(state2, a) = [state2 EXCEPT !.orderStatus = st]
  /\ \A e \in EtaPayloads :
       LET a == [type |-> "SET_ETA", payload |-> e] IN
       /\ reducer(state, a) = [state EXCEPT !.eta = e]
       /\ reducer1(state1, a) = [state1 EXCEPT !.eta = e]
       /\ reducer2(state2, a) = [state2 EXCEPT !.eta = e]
  /\ \A b \in BOOLEAN :
       /\ reducer(state, [type |-> "SET_CONNECTED", payload |-> b])
            = [state EXCEPT !.isConnected = b]
       /\ reducer1(state1, [type |-> "SET_ORDER_PLACED", payload |-> b])
            = [state1 EXCEPT !.orderPlaced = b]
       /\ reducer2(state2, [type |-> "SET_ORDER_ASSIGNED", payload |-> b])
            = [state2 EXCEPT !.orderAssigned = b]
  /\ LET a == [type |-> "SET_NOTHING", payload |-> 0] IN
       /\ reducer(state, a) = state
       /\ reducer1(state1, a) = state1
       /\ reducer2(state2, a) = state2
  /\ \A t \in LastUpdatePayloads :
       reducer(state, [type |-> "SET_LAST_UPDATE", payload |-> t])
         = [state EXCEPT !.lastLocationUpdate = t]
  /\ \A p \in BatchPayloads :
       reducer(state, [type |-> "BATCH_UPDATE", payload |-> p])
         = [f \in DOMAIN state |->
              IF f = "lastLocationUpdate" THEN now
              ELSE IF f \in DOMAIN p THEN p[f] ELSE state[f]]

\* C19 witness: SET_ROUTE has just replaced a stored two-point route by a
\* one-point route, on all three screens.
C19_Witness ==
  /\ received.event = "dispatch"
  /\ received.type = "SET_ROUTE"
  /\ state.routeCoords = <<CoordB>>
  /\ state1.routeCoords = <<CoordB>>
  /\ state2.routeCoords = <<CoordB>>
  /\ state.deliveryCoords # Null
  /\ state.orderStatus = "In Transit"

ValidCoords(c) ==
  /\ c # Null
  /\ c.latitude >= -90 /\ c.latitude <= 90
  /\ c.longitude >= -180 /\ c.longitude <= 180

\* C20 (as claimed): on the place-order screen a deliveryLocationUpdate
\* changes deliveryCoords exactly when its orderId is TARGET_ORDER_ID and its
\* coords are a valid coordinate, latitude 0 or longitude 0 included; an
\* update for another order leaves the whole state unchanged.
C20_ValidUpdateStored ==
  [][(received1' # received1 /\ received1'.event = "deliveryLocationUpdate") =>
       IF received1'.orderId = TARGET_ORDER_ID /\ ValidCoords(received1'.coords)
       THEN state1' = [state1 EXCEPT !.deliveryCoords = received1'.coords]
       ELSE state1' = state1]_vars

\* C21 (as claimed): after a successful Place Order (the server has
\* acknowledged the join) the place-order screen eventually has
\* orderPlaced = true.
C21_OrderPlacedEventually ==
  (received1.event = "joinOrderAck") ~> state1.orderPlaced

C23_EachEventHandledOnce ==
  /\ listeners2.customerLocation <= 1
  /\ listeners2.connected <= 1
  /\ received2.event = "customerLocation" => handled2 = 1
  /\ received2.event = "connected" => (handled2 = 1 /\ alerts2 = << "Success" >>)

\* C24 (as claimed): a change of the application state to background emits
\* exactly one pauseTracking, a change to active exactly one resumeTracking,
\* and a resumeTracking is emitted only after a pauseTracking.
C24_OneControlEventPerChange ==
  [][(received' # received /\ received'.event = "appStateChange") =>
       /\ received'.next = "background" =>
            emitted' = << [event |-> "pauseTracking"] >>
       /\ received'.next = "active" =>
            (emitted' = << [event |-> "resumeTracking"] >> /\ trackingPaused)]_vars

\* C25 (as claimed): whenever getCurrentLocation stores a customer
\* coordinate (success or fallback, connected or not) the same step emits a
\* customerLocation with that coordinate; on permission denial the
\* coordinate is not changed and nothing is emitted.
C25_LocalAgreesWithSent ==
  [][(received' # received /\ received'.event \in {"permission", "position"}) =>
       CASE received'.outcome = "granted" -> TRUE
         [] received'.outcome = "denied" ->
              (state'.customerCoords = state.customerCoords /\ emitted' = << >>)
         [] OTHER ->
              \E i \in 1..Len(emitted') :
                /\ emitted'[i].event = "customerLocation"
                /\ emitted'[i].customerCoords = state'.customerCoords]_vars

\* C26 (as claimed): the tick of the place-order screen schedules the
\* 'Delivery is Near!' notification only when the delivery is within 100 m
\* of the destination.
C26_NearNotificationOnlyWhenNear ==
  [][(received1' # received1 /\ received1'.event = "etaTick" /\ notified1' # << >>)
     => Arrived(state1.deliveryCoords, state1.routeCoords)]_vars

\* C27: requestLocationUpdate is emitted only in steps that end with
\* isConnected and socketConnected both true; the poll runs only while
\* isConnected, so not between a disconnect and the next 'connected';
\* joinAsCustomer is emitted only over a connected socket, and
\* handleJoinAsCustomer with socketConnected false emits nothing and leaves
\* the state, orderStatus included, as it was.
C27_EmitsOnlyWhenConnected ==
  [][/\ \A i \in 1..Len(emitted') :
          /\ emitted'[i].event = "requestLocationUpdate" =>
               (state'.isConnected /\ socketConnected')
          /\ emitted'[i].event = "joinAsCustomer" => socketConnected'
     /\ (received' # received /\ received'.event = "requestUpdateTick") =>
          state.isConnected
     /\ (received' # received /\ received'.event = "pressStartTracking"
         /\ ~socketConnected) =>
          (emitted' = << >> /\ state' = state)]_vars

\* C27 witness: a 'connected' event has just switched tracking on and the
\* first requestLocationUpdate went out with it.
C27_Witness ==
  /\ received.event = "connected"
  /\ emitted = << [event |-> "requestLocationUpdate"] >>
  /\ state.isConnected
  /\ socketConnected

====
